---- MODULE Spec2Model ----
(***************************************************************************)
(* A model of tic's Receiver (src/src/receiver.rs) and Meters              *)
(* (src/src/meters.rs): the aggregation loop, the window state machine,    *)
(* the interest set with its four stat stores, the batch queues shared     *)
(* with the producers, and the run cycle.                                  *)
(***************************************************************************)
EXTENDS Integers, Sequences, FiniteSets, TLC

\* ------------------------------------------------------------------ bounds
\* config.capacity: depth of both channels and size of the empty pool
Capacity == 2
\* config.batch_size: samples per batch
BatchSize == 2
\* config.windows: windows per run
Windows == 2
\* config.duration: window length in seconds
Duration == 1
\* clocksource.frequency(): ticks per second
Frequency == 1
\* the clock is followed up to this tick
MaxTick == 3
\* number of producer threads holding a Sender
NumProducers == 2
\* interest requests (direct or by control message) in a behaviour of Spec
MaxInterestOps == 2
\* interest requests in a behaviour of SpecInterests
MaxInterestOpsI == 3
\* HTTP requests made in all
MaxRequests == 1

\* ------------------------------------------------------- program constants
TOKEN_DATA == 1
TOKEN_CONTROL == 2

\* --------------------------------------------------------------- universes
Channels == {"a", "b"}
Producers == 1..NumProducers

Count(k) == [kind |-> "Count", key |-> k, path |-> ""]
Percentile(k) == [kind |-> "Percentile", key |-> k, path |-> ""]
AllanDeviation(k) == [kind |-> "AllanDeviation", key |-> k, path |-> ""]
Trace(k, f) == [kind |-> "Trace", key |-> k, path |-> f]
Waterfall(k, f) == [kind |-> "Waterfall", key |-> k, path |-> f]

\* the interests the environment subscribes and unsubscribes
Interests ==
  { Count("a"), Count("b"), Percentile("a"), AllanDeviation("a"),
    Trace("a", "p1"), Waterfall("a", "p2") }

\* the samples the producers send: channel, start tick, stop tick, count
Samples ==
  { [channel |-> "a", start |-> 0, stop |-> 1, count |-> 1],
    [channel |-> "a", start |-> 1, stop |-> 1, count |-> 2],
    [channel |-> "b", start |-> 0, stop |-> 2, count |-> 1] }

AddInterestMsg(i) == [type |-> "AddInterest", interest |-> i]
RemoveInterestMsg(i) == [type |-> "RemoveInterest", interest |-> i]
ControlMessages ==
  { AddInterestMsg(i) : i \in Interests } \cup { RemoveInterestMsg(i) : i \in Interests }

Paths == {"/metrics", "/"}

\* common::default_percentiles and common::default_taus, cut to two and one
Percentiles == { <<"p50", 50>>, <<"max", 100>> }
Taus == {1}

\* Sender.buffer: Option<Vec<Sample>>
NoBatch == [some |-> FALSE, samples |-> <<>>]
SomeBatch(samples) == [some |-> TRUE, samples |-> samples]

\* ------------------------------------------------------------- clocksource
\* Clocksource::convert: ticks to nanoseconds
NanosPerSecond == 1000000000
convert(t) == (t * NanosPerSecond) \div Frequency

\* window_duration = (config.duration as f64 * clocksource.frequency()) as u64
WindowDuration == Duration * Frequency
\* run_duration = config.windows as u64 * window_duration
run_duration(cfg) == cfg.windows * WindowDuration
\* (0.1 * self.clocksource.frequency()) as u64
HttpInterval == Frequency \div 10
StartTime == 0

\* ------------------------------------------------------------- stat stores
\* A store is a map from the initialized channels to their data.
StoreInit(store, k, fresh) ==
  [x \in (DOMAIN store) \cup {k} |-> IF x = k THEN fresh ELSE store[x]]
StoreRemove(store, k) == [x \in (DOMAIN store) \ {k} |-> store[x]]
StoreUpdate(store, k, v) ==
  IF k \in DOMAIN store THEN [store EXCEPT ![k] = v] ELSE store
EmptyStore == [x \in {} |-> 0]

\* Counters
CountersInit(c, k) == StoreInit(c, k, 0)
CountersIncrementBy(c, k, n) ==
  IF k \in DOMAIN c THEN StoreUpdate(c, k, c[k] + n) ELSE c
CountersCount(c, k) == IF k \in DOMAIN c THEN c[k] ELSE 0

\* Histograms: per channel, the latencies of the window in ascending order
RECURSIVE SortedInsert(_, _)
SortedInsert(s, v) ==
  IF s = <<>> THEN <<v>>
  ELSE IF v <= Head(s) THEN <<v>> \o s
  ELSE <<Head(s)>> \o SortedInsert(Tail(s), v)
HistogramsInit(h, k) == StoreInit(h, k, <<>>)
HistogramsIncrement(h, k, dt) ==
  IF k \in DOMAIN h THEN StoreUpdate(h, k, SortedInsert(h[k], dt)) ELSE h
HistogramsClear(h) == [x \in DOMAIN h |-> <<>>]
\* the rank of quantile q (in percent) among n values, at least 1
Rank(q, n) ==
  LET r == (q * n + 99) \div 100 IN IF r < 1 THEN 1 ELSE r
\* Histograms::percentile: <<TRUE, value>> or <<FALSE, 0>> for "no value"
HistogramsPercentile(h, k, q) ==
  IF k \in DOMAIN h /\ h[k] # <<>>
  THEN <<TRUE, h[k][Rank(q, Len(h[k]))]>>
  ELSE <<FALSE, 0>>

\* Allans: per channel, the number of recorded values (the full history)
AllansInit(a, k) == StoreInit(a, k, 0)
AllansRecord(a, k, dt) ==
  IF k \in DOMAIN a THEN StoreUpdate(a, k, a[k] + 1) ELSE a
\* Allans::adev: defined once the series holds 2*tau+1 values
AllansAdev(a, k, tau) ==
  IF k \in DOMAIN a /\ a[k] >= 2 * tau + 1
  THEN <<TRUE, a[k]>>
  ELSE <<FALSE, 0>>

\* Heatmaps: per channel, the number of recorded values of the run
HeatmapsInit(h, k) == StoreInit(h, k, 0)
HeatmapsIncrement(h, k, t0, dt) ==
  IF k \in DOMAIN h THEN StoreUpdate(h, k, h[k] + 1) ELSE h
HeatmapsClear(h) == [x \in DOMAIN h |-> 0]

\* ------------------------------------------------------------------ meters
CountKey(channel) == channel \o "_count"
PercentileKey(channel, label) == channel \o "_" \o label \o "_nanoseconds"
AdevKey(channel, tau) == channel \o "_tau_" \o ToString(tau) \o "_adev"

\* an insert that leaves the inserted key alone in the map
MapInsert_alone(m, key, value) == [x \in {key} |-> value]
MapInsert(m, key, value) ==
  [x \in (DOMAIN m) \cup {key} |-> IF x = key THEN value ELSE m[x]]
\* Meters::new
MetersNew == [data |-> EmptyStore, data_float |-> EmptyStore]
\* Meters::set_count
set_count(m, channel, value) ==
  [m EXCEPT !.data = MapInsert(m.data, CountKey(channel), value)]
\* Meters::set_percentile
set_percentile(m, channel, percentile, value) ==
  [m EXCEPT !.data = MapInsert(m.data, PercentileKey(channel, percentile[1]), value)]
\* Meters::set_adev
set_adev(m, channel, tau, value) ==
  [m EXCEPT !.data_float = MapInsert(m.data_float, AdevKey(channel, tau), value)]

\* ---------------------------------------------------------------- receiver
VARIABLES
  now,          \* clocksource.counter()
  config,       \* [service_mode, poll_delay, windows]
  window_time, end_time,
  interests, allans, counters, histograms, heatmaps, meters,
  empty_queue,  \* the pool of empty batches
  data_q,       \* the filled queue: [samples, enq], enq the tick of the enqueue
  control_q,    \* the control queue
  buffer,       \* per producer, the batch it is filling, or NoBatch
  http_req,     \* the pending HTTP request's path, or "none"
  response,     \* the body of the last HTTP response
  pc,           \* where the Receiver's thread is
  wt,           \* run_once's local window_time
  http_time,    \* run_once's local http_time
  events,       \* the events of the last poll still to handle
  window,       \* run's local window counter
  files,        \* the artifacts written by the last save_files
  hist          \* history: what has happened so far

rxvars == <<window_time, end_time, interests, allans, counters, histograms, heatmaps, meters>>
vars == <<now, config, rxvars, empty_queue, data_q, control_q, buffer, http_req,
          response, pc, wt, http_time, events, window, files, hist>>

\* the interest set and the four stat stores, as one value
Stores ==
  [interests |-> interests, allans |-> allans, counters |-> counters,
   histograms |-> histograms, heatmaps |-> heatmaps]

\* add_interest that unsubscribes an interest found already subscribed
add_interest_toggle(s, interest) ==
  LET key == interest.key
      t == CASE interest.kind = "AllanDeviation" -> [s EXCEPT !.allans = AllansInit(s.allans, key)]
             [] interest.kind = "Count" -> [s EXCEPT !.counters = CountersInit(s.counters, key)]
             [] interest.kind = "Percentile" -> [s EXCEPT !.histograms = HistogramsInit(s.histograms, key)]
             [] interest.kind \in {"Trace", "Waterfall"} -> [s EXCEPT !.heatmaps = HeatmapsInit(s.heatmaps, key)]
  IN [t EXCEPT !.interests = IF interest \in t.interests
                             THEN t.interests \ {interest}
                             ELSE t.interests \cup {interest}]

\* Receiver::add_interest
add_interest(s, interest) ==
  LET key == interest.key
      t == CASE interest.kind = "AllanDeviation" -> [s EXCEPT !.allans = AllansInit(s.allans, key)]
             [] interest.kind = "Count" -> [s EXCEPT !.counters = CountersInit(s.counters, key)]
             [] interest.kind = "Percentile" -> [s EXCEPT !.histograms = HistogramsInit(s.histograms, key)]
             [] interest.kind \in {"Trace", "Waterfall"} -> [s EXCEPT !.heatmaps = HeatmapsInit(s.heatmaps, key)]
  IN [t EXCEPT !.interests = t.interests \cup {interest}]

\* Receiver::remove_interest
remove_interest(s, interest) ==
  LET key == interest.key
      t == CASE interest.kind = "AllanDeviation" -> [s EXCEPT !.allans = StoreRemove(s.allans, key)]
             [] interest.kind = "Count" -> [s EXCEPT !.counters = StoreRemove(s.counters, key)]
             [] interest.kind = "Percentile" -> [s EXCEPT !.histograms = StoreRemove(s.histograms, key)]
             [] interest.kind \in {"Trace", "Waterfall"} -> [s EXCEPT !.heatmaps = StoreRemove(s.heatmaps, key)]
  IN [t EXCEPT !.interests = t.interests \ {interest}]

\* dispatch with the counter incremented by one per sample, not by its count
dispatch_one_per_sample(s, result) ==
  LET t0 == convert(result.start)
      t1 == convert(result.stop)
      dt == t1 - t0
  IN [s EXCEPT !.allans = AllansRecord(s.allans, result.channel, dt),
               !.counters = CountersIncrementBy(s.counters, result.channel, 1),
               !.histograms = HistogramsIncrement(s.histograms, result.channel, dt),
               !.heatmaps = HeatmapsIncrement(s.heatmaps, result.channel, t0, dt)]

\* run_once, TOKEN_DATA: one sample into the four stat stores
dispatch(s, result) ==
  LET t0 == convert(result.start)
      t1 == convert(result.stop)
      dt == t1 - t0
  IN [s EXCEPT !.allans = AllansRecord(s.allans, result.channel, dt),
               !.counters = CountersIncrementBy(s.counters, result.channel, result.count),
               !.histograms = HistogramsIncrement(s.histograms, result.channel, dt),
               !.heatmaps = HeatmapsIncrement(s.heatmaps, result.channel, t0, dt)]

\* run_once, TOKEN_DATA: for result in &results
RECURSIVE dispatch_all(_, _)
dispatch_all(s, results) ==
  IF results = <<>> THEN s
  ELSE dispatch_all(dispatch(s, Head(results)), Tail(results))

\* the drained batch goes back to the pool with its samples
clear_kept(results) == results

\* run_once, TOKEN_DATA: results.clear()
clear(results) == <<>>

\* the drained batch is never returned to the pool
push_empty_forgotten(queue, results) == queue

\* run_once, TOKEN_DATA: let _ = self.empty_queue.push(results)
push_empty(queue, results) ==
  IF Len(queue) < Capacity THEN Append(queue, results) ELSE queue

\* render_interest that writes a percentile only when the histogram has a value
render_interest_skip_empty(m, interest, s) ==
  CASE interest.kind = "Count" ->
         set_count(m, interest.key, CountersCount(s.counters, interest.key))
    [] interest.kind = "Percentile" ->
         LET RECURSIVE each(_, _)
             each(mm, ps) ==
               IF ps = {} THEN mm
               ELSE LET p == CHOOSE x \in ps : TRUE
                        v == HistogramsPercentile(s.histograms, interest.key, p[2])
                    IN each(IF v[1] THEN set_percentile(mm, interest.key, p, v[2]) ELSE mm,
                            ps \ {p})
         IN each(m, Percentiles)
    [] interest.kind = "AllanDeviation" ->
         LET RECURSIVE each(_, _)
             each(mm, ts) ==
               IF ts = {} THEN mm
               ELSE LET tau == CHOOSE x \in ts : TRUE
                        v == AllansAdev(s.allans, interest.key, tau)
                    IN each(IF v[1] THEN set_adev(mm, interest.key, tau, v[2]) ELSE mm,
                            ts \ {tau})
         IN each(m, Taus)
    [] interest.kind \in {"Trace", "Waterfall"} -> m

\* check_elapsed: what one interest writes to the meters
render_interest(m, interest, s) ==
  CASE interest.kind = "Count" ->
         set_count(m, interest.key, CountersCount(s.counters, interest.key))
    [] interest.kind = "Percentile" ->
         LET RECURSIVE each(_, _)
             each(mm, ps) ==
               IF ps = {} THEN mm
               ELSE LET p == CHOOSE x \in ps : TRUE
                        v == HistogramsPercentile(s.histograms, interest.key, p[2])
                    IN each(set_percentile(mm, interest.key, p, IF v[1] THEN v[2] ELSE 0),
                            ps \ {p})
         IN each(m, Percentiles)
    [] interest.kind = "AllanDeviation" ->
         LET RECURSIVE each(_, _)
             each(mm, ts) ==
               IF ts = {} THEN mm
               ELSE LET tau == CHOOSE x \in ts : TRUE
                        v == AllansAdev(s.allans, interest.key, tau)
                    IN each(IF v[1] THEN set_adev(mm, interest.key, tau, v[2]) ELSE mm,
                            ts \ {tau})
         IN each(m, Taus)
    [] interest.kind \in {"Trace", "Waterfall"} -> m

\* check_elapsed: for interest in &self.interests
RECURSIVE render(_, _, _)
render(m, is, s) ==
  IF is = {} THEN m
  ELSE LET i == CHOOSE x \in is : TRUE
       IN render(render_interest(m, i, s), is \ {i}, s)

\* Receiver::clone_meters
clone_meters == meters

\* handle_http: the output is kept as a sequence of pieces, every piece that
\* String::pop may meet ("{" and ",") being a single character of its own
RECURSIVE format_each(_, _, _)
format_each(m, keys, url) ==
  IF keys = {} THEN <<>>
  ELSE LET stat == CHOOSE x \in keys : TRUE
           piece == IF url \in {"/vars", "/metrics"}
                    THEN <<stat \o " " \o ToString(m[stat]) \o "\n">>
                    ELSE <<"\"" \o stat \o "\":" \o ToString(m[stat]), ",">>
       IN piece \o format_each(m, keys \ {stat}, url)
\* String::pop: removes the last character, if any
pop(output) ==
  IF output = <<>> THEN output ELSE SubSeq(output, 1, Len(output) - 1)
RECURSIVE concat(_)
concat(output) ==
  IF output = <<>> THEN "" ELSE Head(output) \o concat(Tail(output))
\* Receiver::handle_http: the body of the response to a request for url
handle_http(m, url) ==
  LET stats == format_each(m.data, DOMAIN m.data, url)
                 \o format_each(m.data_float, DOMAIN m.data_float, url)
  IN IF url \in {"/vars", "/metrics"}
     THEN concat(stats)
     ELSE concat(pop(<<"{">> \o stats) \o <<"}">>)

\* ------------------------------------------------------------------- init
\* Receiver::configured
configured(cfg) ==
  /\ now = StartTime
  /\ config = cfg
  /\ window_time = StartTime + WindowDuration
  /\ end_time = StartTime + run_duration(cfg)
  /\ interests = {}
  /\ allans = EmptyStore
  /\ counters = EmptyStore
  /\ histograms = EmptyStore
  /\ heatmaps = EmptyStore
  /\ meters = MetersNew
  /\ empty_queue = [i \in 1..Capacity |-> <<>>]
  /\ data_q = <<>>
  /\ control_q = <<>>
  /\ buffer = [p \in Producers |-> NoBatch]
  /\ http_req = "none"
  /\ response = "none"
  /\ pc = "idle"
  /\ wt = 0
  /\ http_time = 0
  /\ events = <<>>
  /\ window = 0
  /\ files = {}
  /\ hist = [allocated |-> 0, discarded |-> 0, samples_sent |-> 0,
             interest_ops |-> 0, requests |-> 0, renders |-> 0, saves |-> 0,
             stale |-> {}, dup_add |-> FALSE]

\* ---------------------------------------------------------------- actions
\* the clocksource counter advances
Tick ==
  /\ now' = now + 1
  /\ UNCHANGED <<config, rxvars, empty_queue, data_q, control_q, buffer, http_req,
                 response, pc, wt, http_time, events, window, files, hist>>

SetStores(s) ==
  /\ interests' = s.interests
  /\ allans' = s.allans
  /\ counters' = s.counters
  /\ histograms' = s.histograms
  /\ heatmaps' = s.heatmaps

\* history of an add_interest or remove_interest applied to the Receiver
NoteInterest(h, op, i) ==
  [h EXCEPT !.dup_add = @ \/ (op = "AddInterest" /\ i \in interests),
            !.stale = IF i.kind = "Percentile" THEN @ \ {i.key} ELSE @]

\* the owner calls add_interest before run()
AddInterest(i) ==
  /\ pc = "idle"
  /\ SetStores(add_interest(Stores, i))
  /\ hist' = [NoteInterest(hist, "AddInterest", i) EXCEPT !.interest_ops = @ + 1]
  /\ UNCHANGED <<now, config, window_time, end_time, meters, empty_queue, data_q,
                 control_q, buffer, http_req, response, pc, wt, http_time, events,
                 window, files>>

\* the owner calls remove_interest before run()
RemoveInterest(i) ==
  /\ pc = "idle"
  /\ SetStores(remove_interest(Stores, i))
  /\ hist' = [NoteInterest(hist, "RemoveInterest", i) EXCEPT !.interest_ops = @ + 1]
  /\ UNCHANGED <<now, config, window_time, end_time, meters, empty_queue, data_q,
                 control_q, buffer, http_req, response, pc, wt, http_time, events,
                 window, files>>

\* Receiver::run: let mut window = 0
Run ==
  /\ pc = "idle"
  /\ window' = 0
  /\ pc' = "run_once"
  /\ UNCHANGED <<now, config, rxvars, empty_queue, data_q, control_q, buffer,
                 http_req, response, wt, http_time, events, files, hist>>

\* Receiver::run_once: the locals, before the loop
RunOnceEnter ==
  /\ pc = "run_once"
  /\ wt' = window_time
  /\ http_time' = now + HttpInterval
  /\ pc' = "loop"
  /\ UNCHANGED <<now, config, rxvars, empty_queue, data_q, control_q, buffer,
                 http_req, response, events, window, files, hist>>

\* check_elapsed that writes the meters before it compares the clock
check_elapsed_render_first(t1) ==
  /\ meters' = render(meters, interests, Stores)
  /\ IF now >= t1
     THEN /\ histograms' = HistogramsClear(histograms)
          /\ window_time' = window_time + WindowDuration
          /\ hist' = [hist EXCEPT !.renders = @ + 1, !.stale = {}]
     ELSE UNCHANGED <<histograms, window_time, hist>>
  /\ UNCHANGED <<end_time, interests, allans, counters, heatmaps>>

\* check_elapsed that starts the next window at the tick of the detection
check_elapsed_from_now(t1) ==
  IF now >= t1
  THEN /\ meters' = render(meters, interests, Stores)
       /\ histograms' = HistogramsClear(histograms)
       /\ window_time' = now + WindowDuration
       /\ hist' = [hist EXCEPT !.renders = @ + 1, !.stale = {}]
       /\ UNCHANGED <<end_time, interests, allans, counters, heatmaps>>
  ELSE UNCHANGED <<rxvars, hist>>

\* Receiver::check_elapsed: its effect on the Receiver
check_elapsed(t1) ==
  IF now >= t1
  THEN /\ meters' = render(meters, interests, Stores)
       /\ histograms' = HistogramsClear(histograms)
       /\ window_time' = window_time + WindowDuration
       /\ hist' = [hist EXCEPT !.renders = @ + 1, !.stale = {}]
       /\ UNCHANGED <<end_time, interests, allans, counters, heatmaps>>
  ELSE UNCHANGED <<rxvars, hist>>

\* Receiver::try_handle_http
try_handle_http ==
  IF http_req # "none"
  THEN /\ response' = handle_http(meters, http_req)
       /\ http_req' = "none"
  ELSE UNCHANGED <<http_req, response>>

\* Receiver::run_once: the head of the loop, up to the poll
LoopHead ==
  /\ pc = "loop"
  /\ IF now > http_time
     THEN try_handle_http /\ http_time' = http_time + HttpInterval
     ELSE UNCHANGED <<http_req, response, http_time>>
  /\ check_elapsed(wt)
  /\ pc' = IF now >= wt THEN "returned" ELSE "poll"
  /\ UNCHANGED <<now, config, empty_queue, data_q, control_q, buffer, wt, events,
                 window, files>>

\* Receiver::run: run_once has returned; window += 1 and the test of the inner loop
RunNext ==
  /\ pc = "returned"
  /\ window' = window + 1
  /\ pc' = IF window + 1 >= config.windows THEN "save" ELSE "run_once"
  /\ UNCHANGED <<now, config, rxvars, empty_queue, data_q, control_q, buffer,
                 http_req, response, wt, http_time, events, files, hist>>

\* Receiver::save_files: one artifact per Trace or Waterfall interest
save_files(is, h) ==
  { [interest |-> i, data |-> IF i.key \in DOMAIN h THEN <<h[i.key]>> ELSE <<>>] :
      i \in { x \in is : x.kind \in {"Trace", "Waterfall"} } }

\* Receiver::run: save_files, then the end of the run or the next cycle
RunSave ==
  /\ pc = "save"
  /\ files' = save_files(interests, heatmaps)
  /\ hist' = [hist EXCEPT !.saves = @ + 1, !.renders = 0]
  /\ IF ~config.service_mode
     THEN /\ pc' = "done"
          /\ UNCHANGED <<heatmaps, end_time>>
     ELSE /\ heatmaps' = HeatmapsClear(heatmaps)
          /\ end_time' = end_time + run_duration(config)
          /\ pc' = "run_once"
  /\ UNCHANGED <<now, config, window_time, interests, allans, counters, histograms,
                 meters, empty_queue, data_q, control_q, buffer, http_req, response,
                 wt, http_time, events, window>>

\* the tokens whose channel is readable
Ready ==
  (IF data_q # <<>> THEN {TOKEN_DATA} ELSE {})
    \cup (IF control_q # <<>> THEN {TOKEN_CONTROL} ELSE {})

\* the orders in which events.iter() may yield a set of tokens
Orders(tokens) ==
  IF tokens = {TOKEN_DATA, TOKEN_CONTROL}
  THEN {<<TOKEN_DATA, TOKEN_CONTROL>>, <<TOKEN_CONTROL, TOKEN_DATA>>}
  ELSE {<<t>> : t \in tokens}

\* Receiver::run_once: self.poll.poll returns with events
Poll ==
  /\ pc = "poll"
  /\ Ready # {}
  /\ events' \in Orders(Ready)
  /\ pc' = "events"
  /\ UNCHANGED <<now, config, rxvars, empty_queue, data_q, control_q, buffer,
                 http_req, response, wt, http_time, window, files, hist>>

\* Receiver::run_once: self.poll.poll returns after config.poll_delay, no event
PollTimeout ==
  /\ pc = "poll"
  /\ Ready = {}
  /\ config.poll_delay = "some"
  /\ pc' = "loop"
  /\ UNCHANGED <<now, config, rxvars, empty_queue, data_q, control_q, buffer,
                 http_req, response, wt, http_time, events, window, files, hist>>

\* the channels of a batch that the histograms record
Recorded(results, h) == { results[j].channel : j \in 1..Len(results) } \cap DOMAIN h

\* Receiver::run_once: one TOKEN_DATA event
HandleData ==
  /\ pc = "events"
  /\ Head(events) = TOKEN_DATA
  /\ IF data_q # <<>>
     THEN LET results == Head(data_q).samples IN
          /\ data_q' = Tail(data_q)
          /\ SetStores(dispatch_all(Stores, results))
          /\ empty_queue' = push_empty(empty_queue, clear(results))
          /\ hist' = [hist EXCEPT
               !.discarded = IF Len(empty_queue) < Capacity THEN @ ELSE @ + 1,
               !.stale = IF Head(data_q).enq < window_time - WindowDuration
                         THEN @ \cup Recorded(results, histograms) ELSE @]
     ELSE UNCHANGED <<data_q, interests, allans, counters, histograms, heatmaps,
                      empty_queue, hist>>
  /\ events' = Tail(events)
  /\ pc' = IF Tail(events) = <<>> THEN "loop" ELSE "events"
  /\ UNCHANGED <<now, config, window_time, end_time, meters, control_q, buffer,
                 http_req, response, wt, http_time, window, files>>

\* Receiver::run_once: one TOKEN_CONTROL event
HandleControl ==
  /\ pc = "events"
  /\ Head(events) = TOKEN_CONTROL
  /\ IF control_q # <<>>
     THEN LET msg == Head(control_q) IN
          /\ control_q' = Tail(control_q)
          /\ SetStores(IF msg.type = "AddInterest"
                       THEN add_interest(Stores, msg.interest)
                       ELSE remove_interest(Stores, msg.interest))
          /\ hist' = NoteInterest(hist, msg.type, msg.interest)
     ELSE UNCHANGED <<control_q, interests, allans, counters, histograms, heatmaps, hist>>
  /\ events' = Tail(events)
  /\ pc' = IF Tail(events) = <<>> THEN "loop" ELSE "events"
  /\ UNCHANGED <<now, config, window_time, end_time, meters, empty_queue, data_q,
                 buffer, http_req, response, wt, http_time, window, files>>

\* ---------------------------------------------------------------- producers
\* Sender: a producer without a batch takes one from the pool, or allocates one
Acquire(p) ==
  /\ ~buffer[p].some
  /\ IF empty_queue # <<>>
     THEN /\ buffer' = [buffer EXCEPT ![p] = SomeBatch(Head(empty_queue))]
          /\ empty_queue' = Tail(empty_queue)
          /\ UNCHANGED hist
     ELSE /\ buffer' = [buffer EXCEPT ![p] = SomeBatch(<<>>)]
          /\ hist' = [hist EXCEPT !.allocated = @ + 1]
          /\ UNCHANGED empty_queue
  /\ UNCHANGED <<now, config, rxvars, data_q, control_q, http_req, response, pc, wt,
                 http_time, events, window, files>>

\* Sender::send: the sample is appended to the producer's batch
Send(p, sample) ==
  /\ buffer[p].some
  /\ Len(buffer[p].samples) < BatchSize
  /\ buffer' = [buffer EXCEPT ![p] = SomeBatch(Append(@.samples, sample))]
  /\ hist' = [hist EXCEPT !.samples_sent = @ + 1]
  /\ UNCHANGED <<now, config, rxvars, empty_queue, data_q, control_q, http_req,
                 response, pc, wt, http_time, events, window, files>>

\* Sender::send: the full batch goes onto the filled queue, or, the queue being
\* full, is dropped with its samples
Enqueue(p) ==
  /\ buffer[p].some
  /\ Len(buffer[p].samples) >= BatchSize
  /\ IF Len(data_q) < Capacity
     THEN /\ data_q' = Append(data_q, [samples |-> buffer[p].samples, enq |-> now])
          /\ UNCHANGED hist
     ELSE /\ hist' = [hist EXCEPT !.discarded = @ + 1]
          /\ UNCHANGED data_q
  /\ buffer' = [buffer EXCEPT ![p] = NoBatch]
  /\ UNCHANGED <<now, config, rxvars, empty_queue, control_q, http_req, response,
                 pc, wt, http_time, events, window, files>>

\* Sender: a control message goes onto the control queue, if it has room
SendControl(msg) ==
  /\ Len(control_q) < Capacity
  /\ control_q' = Append(control_q, msg)
  /\ hist' = [hist EXCEPT !.interest_ops = @ + 1]
  /\ UNCHANGED <<now, config, rxvars, empty_queue, data_q, buffer, http_req,
                 response, pc, wt, http_time, events, window, files>>

\* a client's request reaches the HTTP server
HttpRequest(url) ==
  /\ http_req = "none"
  /\ http_req' = url
  /\ hist' = [hist EXCEPT !.requests = @ + 1]
  /\ UNCHANGED <<now, config, rxvars, empty_queue, data_q, control_q, buffer,
                 response, pc, wt, http_time, events, window, files>>

\* ------------------------------------------------------------ specification
\* the environment's steps, within the bounds of a behaviour
Clock == now < MaxTick /\ Tick
Owner(is, max) ==
  /\ hist.interest_ops < max
  /\ \/ \E i \in is : AddInterest(i)
     \/ \E i \in is : RemoveInterest(i)
Control(is, max) ==
  /\ hist.interest_ops < max
  /\ \/ \E i \in is : SendControl(AddInterestMsg(i))
     \/ \E i \in is : SendControl(RemoveInterestMsg(i))
Producer(ps, ss, max) ==
  \/ \E p \in ps : Acquire(p)
  \/ hist.samples_sent < max /\ \E p \in ps, sample \in ss : Send(p, sample)
  \/ \E p \in ps : Enqueue(p)
Client == hist.requests < MaxRequests /\ \E url \in Paths : HttpRequest(url)

\* the Receiver's thread inside run_once
ReceiverLoop ==
  \/ RunOnceEnter
  \/ LoopHead
  \/ Poll
  \/ PollTimeout
  \/ HandleData
  \/ HandleControl

\* the Receiver's thread
Receiver ==
  \/ Run
  \/ RunNext
  \/ RunSave
  \/ ReceiverLoop

OneSample == { [channel |-> "a", start |-> 0, stop |-> 1, count |-> 1] }
WindowInterests == { Count("a"), Percentile("a"), AllanDeviation("a") }
CountInterests == { Count("a"), Count("b") }
SnapshotInterests == { Count("a"), Percentile("a") }
Polling(sm) == [service_mode |-> sm, poll_delay |-> "some", windows |-> Windows]

\* The windows and the run cycle: one producer, one batch of one kind of sample.
Init == \E sm \in BOOLEAN : configured(Polling(sm))
Next ==
  \/ Clock
  \/ Owner(WindowInterests, MaxInterestOps)
  \/ Control(WindowInterests, MaxInterestOps)
  \/ Producer({1}, OneSample, BatchSize)
  \/ Receiver
Spec == Init /\ [][Next]_vars

\* The counters of two channels: one producer, one batch of any samples.
InitCounts == configured(Polling(FALSE))
NextCounts ==
  \/ Clock
  \/ Owner(CountInterests, MaxInterestOps)
  \/ Control(CountInterests, MaxInterestOps)
  \/ Producer({1}, Samples, BatchSize)
  \/ Receiver
SpecCounts == InitCounts /\ [][NextCounts]_vars

\* The snapshot and its readers: as Spec, with the HTTP clients.
InitSnapshot == configured(Polling(FALSE))
NextSnapshot ==
  \/ Clock
  \/ Owner(SnapshotInterests, MaxInterestOps)
  \/ Control(SnapshotInterests, MaxInterestOps)
  \/ Producer({1}, OneSample, BatchSize)
  \/ Client
  \/ Receiver
SpecSnapshot == InitSnapshot /\ [][NextSnapshot]_vars

\* The interest set and the stores: every interest, within the first window.
InitInterests == configured(Polling(FALSE))
NextInterests ==
  \/ Owner(Interests, MaxInterestOpsI)
  \/ Control(Interests, MaxInterestOpsI)
  \/ Producer({1}, OneSample, BatchSize)
  \/ Run
  \/ ReceiverLoop
SpecInterests == InitInterests /\ [][NextInterests]_vars

\* The batches: every producer, enough samples to fill the queue and one more
\* batch, no interest.
InitBatches == configured(Polling(FALSE))
NextBatches ==
  \/ Producer(Producers, OneSample, BatchSize * (Capacity + 1))
  \/ Run
  \/ RunOnceEnter
  \/ LoopHead
  \/ Poll
  \/ PollTimeout
  \/ HandleData
SpecBatches == InitBatches /\ [][NextBatches]_vars

\* No traffic: no batch and no control message is ever enqueued; the clock
\* advances, a client may ask for the meters, and poll_delay is set or left unset.
\* The Receiver's thread takes its next step whenever it has one, and the clock
\* keeps advancing up to MaxTick.
Configs == [service_mode : BOOLEAN, poll_delay : {"some", "none"}, windows : {Windows}]
InitIdle == \E cfg \in Configs : configured(cfg)
NextIdle ==
  \/ Clock
  \/ Client
  \/ Run
  \/ RunOnceEnter
  \/ LoopHead
  \/ PollTimeout
  \/ RunNext
  \/ RunSave
ReceiverIdle == Run \/ RunOnceEnter \/ LoopHead \/ PollTimeout \/ RunNext \/ RunSave
SpecIdle ==
  InitIdle /\ [][NextIdle]_vars /\ WF_vars(Clock) /\ WF_vars(ReceiverIdle)

\* The lifetime totals: one counter, subscribed and unsubscribed up to
\* MaxInterestOpsI times across the windows of a run.
TotalInterests == { Count("a") }
InitTotals == configured(Polling(FALSE))
NextTotals ==
  \/ Clock
  \/ Owner(TotalInterests, MaxInterestOpsI)
  \/ Control(TotalInterests, MaxInterestOpsI)
  \/ Producer({1}, OneSample, BatchSize)
  \/ Receiver
SpecTotals == InitTotals /\ [][NextTotals]_vars

\* The count-only scenario: a run of one window, Count("req") subscribed before
\* the run, one producer sending two full batches and one more sample, each with
\* count 1, until run() has returned.
ReqSample == [channel |-> "req", start |-> 0, stop |-> 1, count |-> 1]
ScenarioSamples == 2 * BatchSize + 1
CountOnly == [service_mode |-> FALSE, poll_delay |-> "some", windows |-> 1]
InitCountOnly == configured(CountOnly)
NextCountOnly ==
  \/ Clock
  \/ hist.interest_ops < 1 /\ AddInterest(Count("req"))
  \/ pc # "done" /\ Producer({1}, {ReqSample}, ScenarioSamples)
  \/ Run
  \/ RunOnceEnter
  \/ LoopHead
  \/ Poll
  \/ PollTimeout
  \/ HandleData
  \/ RunNext
  \/ RunSave
SpecCountOnly == InitCountOnly /\ [][NextCountOnly]_vars

\* The recycling of batches: as SpecBatches, with Count("a") subscribed, so that
\* the samples of every drained batch are seen in a counter.
InitRecycle == configured(Polling(FALSE))
NextRecycle ==
  \/ hist.interest_ops < 1 /\ AddInterest(Count("a"))
  \/ Producer(Producers, OneSample, BatchSize * (Capacity + 1))
  \/ Run
  \/ RunOnceEnter
  \/ LoopHead
  \/ Poll
  \/ PollTimeout
  \/ HandleData
SpecRecycle == InitRecycle /\ [][NextRecycle]_vars

\* The order across the two queues: a producer puts AddInterest messages on the
\* control queue and, only once AddInterest(Count("a")) is among them, a batch of
\* samples on a on the filled queue.
OrderedInterests == { Count("a"), Count("b") }
\* AddInterest(i) has been put on the control queue (no interest is removed here)
AddSent(i) ==
  \/ i \in interests
  \/ \E j \in 1..Len(control_q) : control_q[j] = AddInterestMsg(i)
InitOrdering == configured(Polling(FALSE))
NextOrdering ==
  \/ /\ hist.interest_ops < MaxInterestOps
     /\ \E i \in OrderedInterests : SendControl(AddInterestMsg(i))
  \/ Acquire(1)
  \/ hist.samples_sent < BatchSize /\ \E sample \in OneSample : Send(1, sample)
  \/ AddSent(Count("a")) /\ Enqueue(1)
  \/ Run
  \/ ReceiverLoop
SpecOrdering == InitOrdering /\ [][NextOrdering]_vars

\* ------------------------------------------------------------------ claims
\* the step of run_once that takes a batch off the filled queue
DrainStep ==
  pc = "events" /\ Head(events) = TOKEN_DATA /\ data_q # <<>> /\ events' = Tail(events)
\* the step of run_once in which check_elapsed renders a window boundary
RenderStep == pc = "loop" /\ pc' = "returned"

\* the sum of the count fields of the samples of a batch on channel k
RECURSIVE SumCount(_, _)
SumCount(results, k) ==
  IF results = <<>> THEN 0
  ELSE (IF Head(results).channel = k THEN Head(results).count ELSE 0)
         + SumCount(Tail(results), k)

C2_WindowVisibility ==
  [][ RenderStep => \A j \in 1..Len(data_q) : data_q[j].enq >= wt ]_vars

\* C3: histogram reset. The percentiles rendered at a window boundary come only
\* from samples enqueued during that window: the histogram of no channel with
\* Percentile subscribed holds a sample of a batch enqueued before the window
\* began.
C3_HistogramReset ==
  [][ RenderStep =>
        \A k \in Channels : Percentile(k) \in interests => k \notin hist.stale ]_vars

\* the stat store that backs an interest
StoreOf(s, interest) ==
  CASE interest.kind = "AllanDeviation" -> s.allans
    [] interest.kind = "Count" -> s.counters
    [] interest.kind = "Percentile" -> s.histograms
    [] interest.kind \in {"Trace", "Waterfall"} -> s.heatmaps

\* C4: interest/store consistency. Every interest in the set has its stat store
\* initialized for its channel.
C4_InterestStoreConsistency ==
  \A i \in interests : i.key \in DOMAIN StoreOf(Stores, i)

\* C5: add_interest is idempotent. In every reachable state and for every
\* interest, adding it twice gives the interest set and the stores that adding
\* it once gives.
C5_AddIdempotent ==
  \A i \in Interests :
    add_interest(add_interest(Stores, i), i) = add_interest(Stores, i)

\* C5 witness: an interest already subscribed has been added again, in a state
\* whose stores hold dispatched data.
C5_Witness ==
  /\ hist.dup_add
  /\ \E k \in DOMAIN counters : counters[k] > 0

\* C6: remove_interest of an absent interest changes nothing. In every reachable
\* state, removing an interest that is not in the set leaves the set and the four
\* stores as they are.
C6_RemoveAbsentNoop ==
  \A i \in Interests \ interests : remove_interest(Stores, i) = Stores

\* the batches held by the producers
InFlight == Cardinality({ p \in Producers : buffer[p].some })
\* the batches in the pool, in the filled queue and at the producers
Batches == Len(empty_queue) + Len(data_q) + InFlight

\* C7: batch conservation. Between steps, the batches in the empty pool, in the
\* filled queue and at the producers are capacity many.
C7_BatchConservation == Batches = Capacity

\* C7, amended: the batches are capacity many plus those the producers allocated
\* on finding the pool empty, minus those discarded (by the Receiver on a full
\* pool, by a producer on a full queue); pool and queue never exceed capacity.
C7_BatchAccounting ==
  /\ Batches = Capacity + hist.allocated - hist.discarded
  /\ Len(empty_queue) <= Capacity
  /\ Len(data_q) <= Capacity

\* C7 witness: a producer has allocated a batch, the Receiver has discarded one
\* on a full pool or a producer on a full queue, and the Receiver has drained.
C7_Witness ==
  /\ hist.allocated > 0
  /\ hist.discarded > 0
  /\ Len(empty_queue) = Capacity
  /\ pc = "loop"

\* the step in which check_elapsed finds the clock at or past the window end tick
BoundaryStep ==
  pc = "loop" /\ now >= wt /\ window_time' = window_time + WindowDuration

\* C8: snapshot isolation. What clone_meters returns changes only in a step in
\* which check_elapsed finds the window elapsed; no dispatch, control message or
\* HTTP request changes it.
C8_SnapshotIsolation ==
  [][ clone_meters' # clone_meters => BoundaryStep ]_vars

\* C8 witness: after a boundary has rendered a counter, a batch has been
\* dispatched and an HTTP request served, and the snapshot still shows the
\* rendered value.
C8_Witness ==
  /\ hist.renders > 0
  /\ response # "none"
  /\ Count("a") \in interests
  /\ CountKey("a") \in DOMAIN clone_meters.data
  /\ counters["a"] > clone_meters.data[CountKey("a")]

\* C9: key schema. A window boundary leaves the key "k_count" in the meters for
\* every Count(k) subscribed, and the key "k_p_nanoseconds" for every
\* Percentile(k) subscribed and every percentile label p, with the value 0 when
\* the histogram of k holds no sample.
C9_KeySchema ==
  [][ RenderStep =>
        \A i \in interests :
          /\ i.kind = "Count" => CountKey(i.key) \in DOMAIN meters'.data
          /\ i.kind = "Percentile" =>
               \A p \in Percentiles :
                 /\ PercentileKey(i.key, p[1]) \in DOMAIN meters'.data
                 /\ (i.key \notin DOMAIN histograms \/ histograms[i.key] = <<>>)
                      => meters'.data[PercentileKey(i.key, p[1])] = 0
    ]_vars

\* C9 witness: a boundary has been rendered with Count and Percentile subscribed
\* and the histogram empty, and the percentile keys hold 0.
C9_Witness ==
  /\ pc = "returned"
  /\ {Count("a"), Percentile("a")} \subseteq interests
  /\ CountKey("a") \in DOMAIN meters.data
  /\ \A p \in Percentiles :
       /\ PercentileKey("a", p[1]) \in DOMAIN meters.data
       /\ meters.data[PercentileKey("a", p[1])] = 0

\* C10: the run cycle. Every save_files follows exactly config.windows rendered
\* window boundaries since the previous save_files (or the start of run), and in
\* service mode the step advances end_time by run_duration.
C10_RunCycle ==
  [][ (pc = "save" /\ pc' # "save") =>
        /\ hist.renders = config.windows
        /\ config.service_mode => end_time' = end_time + run_duration(config)
    ]_vars

\* C11: run termination. In non-service mode, the clock advancing, run() ends:
\* it reaches its end after exactly config.windows calls of run_once and one
\* save_files; in service mode run() never ends.
C11_RunTermination ==
  /\ (~config.service_mode) ~> (pc = "done")
  /\ [](pc = "done" => (~config.service_mode /\ window = config.windows /\ hist.saves = 1))

\* C12: liveness under zero traffic. With nothing ever enqueued and the clock
\* advancing, in every configuration (poll_delay set or not), a window expiry
\* that finds the Receiver waiting at the poll is eventually rendered (run_once
\* returns), and a pending HTTP request is eventually served once the scrape
\* check is due.
C12_ZeroTrafficLiveness ==
  /\ (pc = "poll" /\ now >= wt) ~> (pc = "returned")
  /\ (pc = "poll" /\ now > http_time /\ http_req # "none") ~> (http_req = "none")

\* C13: counters are monotonic lifetime totals. The value of meters["k_count"]
\* never becomes smaller, whatever samples are dispatched, control messages
\* handled and boundaries rendered in between; and a window boundary leaves the
\* counters and the Allan accumulators as they are.
C13_CounterMonotonic ==
  [][ /\ \A k \in Channels :
           CountKey(k) \in DOMAIN meters.data =>
             /\ CountKey(k) \in DOMAIN meters'.data
             /\ meters'.data[CountKey(k)] >= meters.data[CountKey(k)]
      /\ RenderStep => (counters' = counters /\ allans' = allans)
    ]_vars

\* a JSON object on one line: the integer meters, then the float meters, as
\* "key":value separated by commas, between braces
JsonObject(m) ==
  LET members == format_each(m.data, DOMAIN m.data, "/")
                   \o format_each(m.data_float, DOMAIN m.data_float, "/")
  IN IF members = <<>> THEN "{}" ELSE "{" \o concat(pop(members)) \o "}"

\* the step of run_once that serves a pending request for a path other than
\* /vars and /metrics
JsonStep ==
  /\ pc = "loop" /\ now > http_time
  /\ http_req \notin {"none", "/vars", "/metrics"} /\ http_req' = "none"

\* C14: HTTP JSON rendering. The body of the response to a request for a path
\* other than /vars and /metrics is the one-line JSON object of the meters,
\* integer meters first, without a trailing comma; it is "{}" when the meters
\* are empty.
C14_JsonRendering ==
  [][ JsonStep =>
        /\ response' = JsonObject(meters)
        /\ (DOMAIN meters.data = {} /\ DOMAIN meters.data_float = {}) => response' = "{}"
    ]_vars

\* C15: count-only end to end. With Count("req") the only interest and every
\* sample of the scenario sent through the Sender, once run() has returned the
\* meters hold exactly one key, "req_count", whose value is the number of
\* samples sent.
C15_CountOnly ==
  (pc = "done" /\ interests = {Count("req")} /\ hist.samples_sent = ScenarioSamples)
    => /\ DOMAIN meters.data = {CountKey("req")}
       /\ meters.data[CountKey("req")] = ScenarioSamples
       /\ DOMAIN meters.data_float = {}

\* the data of a store entry that no sample has reached
Fresh(interest) == IF interest.kind = "Percentile" THEN <<>> ELSE 0

\* C16: newly added interests see no pre-existing data. In a step that adds an
\* interest that was not in the set, the store entry backing it holds no data
\* afterwards, and the entry backing every interest already in the set keeps its
\* data; this for every variant, a Trace or Waterfall added while another
\* heatmap interest on the channel is present included.
C16_AddSeesNoData ==
  [][ \A i \in interests' \ interests :
        /\ i.key \in DOMAIN StoreOf(Stores', i)
        /\ StoreOf(Stores', i)[i.key] = Fresh(i)
        /\ \A j \in interests :
             j.key \in DOMAIN StoreOf(Stores, j) =>
               /\ j.key \in DOMAIN StoreOf(Stores', j)
               /\ StoreOf(Stores', j)[j.key] = StoreOf(Stores, j)[j.key]
    ]_vars

\* C17: batch recycling. The empty pool never holds more than capacity batches;
\* a step of run_once that drains a batch adds at most one batch to the pool,
\* and that batch has length 0; with the pool already full the drained batch is
\* discarded, the pool stays as it is and the Receiver goes on with its loop;
\* in both cases the counters have taken the counts of the batch's samples.
C17_BatchRecycling ==
  [][ /\ Len(empty_queue') <= Capacity
      /\ DrainStep =>
           /\ Len(empty_queue) < Capacity =>
                /\ Len(empty_queue') = Len(empty_queue) + 1
                /\ SubSeq(empty_queue', 1, Len(empty_queue)) = empty_queue
                /\ Len(empty_queue'[Len(empty_queue')]) = 0
           /\ Len(empty_queue) >= Capacity => empty_queue' = empty_queue
           /\ pc' \in {"loop", "events"}
           /\ \A k \in DOMAIN counters :
                /\ k \in DOMAIN counters'
                /\ counters'[k] = counters[k] + SumCount(Head(data_q).samples, k)
    ]_vars

\* C17 witness: every sample sent has been counted, the last batch having been
\* drained with the pool full and discarded, and the Receiver is back in its loop.
C17_Witness ==
  /\ hist.discarded > 0
  /\ Len(empty_queue) = Capacity
  /\ \A j \in 1..Len(empty_queue) : empty_queue[j] = <<>>
  /\ "a" \in DOMAIN counters
  /\ counters["a"] = BatchSize * (Capacity + 1)
  /\ pc = "loop"

\* C18: the order across the two queues. A batch of samples on k put on the
\* filled queue after AddInterest(Count(k)) was put on the control queue is
\* dispatched only once the AddInterest has been applied, so that its samples
\* are counted in counters.count(k), whatever the order of the readiness events.
C18_ControlBeforeData ==
  [][ DrainStep =>
        \A k \in { Head(data_q).samples[j].channel : j \in 1..Len(Head(data_q).samples) } :
          AddSent(Count(k)) =>
            /\ k \in DOMAIN counters /\ k \in DOMAIN counters'
            /\ counters'[k] = counters[k] + SumCount(Head(data_q).samples, k)
    ]_vars

\* the number of window boundaries rendered since run() was called: run's
\* counter of the calls of run_once that have returned, and the one returning
rendered == window + (IF pc = "returned" THEN 1 ELSE 0)

\* C19: drift-free window ticks. The window end tick changes only when a
\* boundary is rendered, and then by exactly window_duration, however late the
\* expiry is seen: after n rendered boundaries it is start_time + (n + 1) *
\* window_duration. A call of run_once renders one boundary, the one of the
\* window_time it read on entry; and a call that finds the clock at or past that
\* tick returns without taking anything from either queue.
C19_DriftFree ==
  /\ [](window_time = StartTime + (rendered + 1) * WindowDuration)
  /\ [](pc \in {"loop", "poll", "events"} => wt = window_time)
  /\ [][ /\ window_time' # window_time =>
              (RenderStep /\ window_time' = wt + WindowDuration)
         /\ (pc = "loop" /\ now >= wt /\ pc' # pc) =>
              (pc' = "returned" /\ data_q' = data_q /\ control_q' = control_q)
       ]_vars

\* C19 witness: the Receiver has fallen behind by more than one window: the
\* second call of run_once has returned at once, a batch still in the filled
\* queue, and the clock is already at or past the next window end tick.
C19_Witness ==
  /\ pc = "returned"
  /\ window >= 1
  /\ now > wt
  /\ now >= window_time
  /\ data_q # <<>>

\* the meter keys that check_elapsed writes for an interest
KeysOf(interest) ==
  CASE interest.kind = "Count" -> {CountKey(interest.key)}
    [] interest.kind = "Percentile" ->
         { PercentileKey(interest.key, p[1]) : p \in Percentiles }
    [] interest.kind = "AllanDeviation" -> { AdevKey(interest.key, tau) : tau \in Taus }
    [] interest.kind \in {"Trace", "Waterfall"} -> {}
\* the keys of the interests in the set
Subscribed == UNION { KeysOf(i) : i \in interests }
\* the meters as one map (the integer and the float keys are disjoint)
AllMeters(m) ==
  [x \in (DOMAIN m.data) \cup (DOMAIN m.data_float) |->
     IF x \in DOMAIN m.data THEN m.data[x] ELSE m.data_float[x]]
\* the step of run_once that serves a pending HTTP request
ServeStep ==
  pc = "loop" /\ now > http_time /\ http_req # "none" /\ http_req' = "none"

====
